---- MODULE Spec2Model ----
(***************************************************************************)
(* A model of SlackService (src/src/services/slack/slack.service.ts): the  *)
(* reconciliation of the active connection list against setting.tokens     *)
(* (refresh), the dispatch of the five event streams of every subscribed   *)
(* connection, the timeline (infos) and the reaction groups of its entries.*)
(*                                                                         *)
(* A connection instance is named by the order of its construction: conn   *)
(* is the sequence of all SlackClientImpl objects ever constructed, and    *)
(* clients, subscription hold indices into it.  A timeline entry is named  *)
(* by the order of its construction too (field id).                        *)
(***************************************************************************)
EXTENDS Integers, Sequences, FiniteSets, TLC

\* ------------------------------------------------------------------ bounds
MaxClients == 3     \* connection instances constructed in one behaviour
MaxDesired == 2     \* length of setting.tokens
MaxInfos == 2       \* timeline entries constructed in one behaviour
MaxReactions == 2   \* users held by the reaction groups of the timeline

\* ------------------------------------------------------------- value sets
Tokens == {"A", "B", "C"}
EmojiNames == {"e1", "e2"}
EmojiValues == {"v1"}
Users == {"u1", "u2"}
Channels == {"D1", "D2"}
Stamps == {"100.5", "200.0"}
Files == {"F1", "F2"}
Comments == {"K1", "K2"}
Texts == {"x", "y"}

VARIABLES
    tokens,         \* setting.tokens, as the list of its values
    clients,        \* SlackService.clients: indices into conn
    subscription,   \* SlackService.subscription: one index per live bundle
    conn,           \* every SlackClient constructed so far
    infos,          \* SlackService.infos, head first
    pending,        \* addMessage calls suspended at await client.getImage
    nextInfo,       \* number of DisplaySlackMessageInfo objects constructed
    last            \* the operation of the last step and what it did

vars == <<tokens, clients, subscription, conn, infos, pending, nextInfo, last>>

\* ---------------------------------------------------------------- helpers
Range(s) == {s[i] : i \in 1..Len(s)}

Max(S) == CHOOSE x \in S : \A y \in S : y <= x

Count(s, x) == Cardinality({i \in 1..Len(s) : s[i] = x})

SeqsUpTo(S, n) == UNION {[1..k -> S] : k \in 0..n}

\* The token lists the configuration can hold.
DesiredLists == SeqsUpTo(Tokens, MaxDesired)

\* client.emoji of a connection that has seen no emoji event.
EmptyRegistry == [e \in EmojiNames |-> "none"]

\* last: op names the operation, client the connection that emitted the event,
\* n the number of handlers the event was dispatched to, ev the event, prev the
\* active list before a refresh, before the timeline before an event, regs
\* the connections (with their emoji registries) before an event that no
\* handler was subscribed to, target what findReactionTarget returned, notes
\* the calls of _onChange.next and marks those of client.markRead.
NoLast == [op |-> "init", client |-> 0, n |-> 0, ev |-> <<>>, prev |-> <<>>,
           before |-> <<>>, regs |-> <<>>, target |-> 0, notes |-> 0, marks |-> 0]

\* ---------------------------------------------------------------- refresh
\* new SlackClientImpl(token, http) followed by client.start()
NewClient(t) == [token |-> t, started |-> 1, stopped |-> 0, emoji |-> EmptyRegistry]

\* cache[slack.token] = [slack, false] for slack of this.clients, in order:
\* a later connection overwrites an earlier one that holds the same token.
\* 0 stands for an absent key.
Cache(cl, cn) ==
    [t \in Tokens |->
        LET S == {i \in 1..Len(cl) : cn[cl[i]].token = t}
        IN  IF S = {} THEN 0 ELSE cl[Max(S)]]

\* this.setting.tokens.map(t => ...): acc is [clients, subscription, conn, used],
\* used the set of cache keys whose flag has been set.
RECURSIVE MapTokens(_, _, _)
MapTokens(ts, cache, acc) ==
    IF ts = <<>> THEN acc
    ELSE LET t == Head(ts)
             hit == cache[t] # 0
             id == IF hit THEN cache[t] ELSE Len(acc.conn) + 1
         IN  MapTokens(Tail(ts), cache,
                [clients |-> Append(acc.clients, id),
                 subscription |-> Append(acc.subscription, id),
                 conn |-> IF hit THEN acc.conn ELSE Append(acc.conn, NewClient(t)),
                 used |-> IF hit THEN acc.used \cup {t} ELSE acc.used])

\* for key of Object.keys(cache): if (!info[1]) info[0].stop()
StopUnused(cn, cache, used) ==
    [i \in 1..Len(cn) |->
        IF \E t \in Tokens \ used : cache[t] = i
        THEN [cn[i] EXCEPT !.stopped = @ + 1]
        ELSE cn[i]]

\* refresh(): the old subscription is unsubscribed and replaced by an empty one,
\* the token list is mapped, the unused cached connections are stopped.
refresh(cl, cn, desired) ==
    LET cache == Cache(cl, cn)
        m == MapTokens(desired, cache,
                [clients |-> <<>>, subscription |-> <<>>, conn |-> cn, used |-> {}])
    IN  [clients |-> m.clients,
         subscription |-> m.subscription,
         conn |-> StopUnused(m.conn, cache, m.used)]

\* refresh() that adds its bundles to the old subscription.
ResubscribeKeep(old, new) == old \o new

\* this.subscription.unsubscribe(); this.subscription = new Subscription(),
\* to which the bundles of the mapped connections are added.
Resubscribe(old, new) == new

\* The configuration is set to d, one of lists, and refresh() is called.
RefreshTo(lists) ==
    \E d \in lists :
        LET r == refresh(clients, conn, d)
        IN  /\ Len(r.conn) <= MaxClients
            /\ tokens' = d
            /\ clients' = r.clients
            /\ subscription' = Resubscribe(subscription, r.subscription)
            /\ conn' = r.conn
            /\ last' = [NoLast EXCEPT !.op = "refresh", !.prev = clients]
            /\ UNCHANGED <<infos, pending, nextInfo>>

Refresh == RefreshTo(DesiredLists)

\* new SlackClientImpl(token, http) can throw: it is reached only for a token
\* that has no cached connection.
ConstructionCanFail(cache, t) == cache[t] = 0

\* refresh() in which new SlackClientImpl(token, http) throws for the token at
\* position f of desired: the callback of map has run for the tokens before it,
\* the assignment to this.clients and the loop that stops are not reached.
refreshThrown(cl, cn, desired, f) ==
    LET cache == Cache(cl, cn)
        m == MapTokens(SubSeq(desired, 1, f - 1), cache,
                [clients |-> <<>>, subscription |-> <<>>, conn |-> cn, used |-> {}])
    IN  [clients |-> cl,
         subscription |-> m.subscription,
         conn |-> m.conn]

\* The configuration is set to d, one of lists, and refresh() is called; the
\* construction of the connection for a token of d that is not cached throws.
RefreshFails(lists) ==
    \E d \in lists :
        \E f \in 1..Len(d) :
            LET r == refreshThrown(clients, conn, d, f)
            IN  /\ ConstructionCanFail(Cache(clients, conn), d[f])
                /\ Len(r.conn) <= MaxClients
                /\ tokens' = d
                /\ clients' = r.clients
                /\ subscription' = Resubscribe(subscription, r.subscription)
                /\ conn' = r.conn
                /\ last' = [NoLast EXCEPT !.op = "refreshFailed", !.prev = clients]
                /\ UNCHANGED <<infos, pending, nextInfo>>

\* ------------------------------------------------------- reaction groups
\* DisplaySlackReactionInfo.removeUser
removeUser(users, user) == SelectSeq(users, LAMBDA u : u # user)

\* addUser without its removeUser: the user is pushed again.
addUserPush(users, user) == Append(users, user)

\* DisplaySlackReactionInfo.addUser
addUser(users, user) == Append(removeUser(users, user), user)

\* parser.parse(`:${raw}::notitle:`, dataStore): the EmojiParser of the entry's
\* pipeline reads the registry of its connection; a registered name renders as
\* its value, any other name as itself.
Render(raw, registry) == IF registry[raw] = "none" THEN raw ELSE registry[raw]

\* Array.prototype.find over the indices S of the elements that satisfy its
\* predicate: the first of them, 0 when there is none.
First(S) == IF S = {} THEN 0 ELSE CHOOSE i \in S : \A j \in S : i <= j

\* DisplaySlackMessageInfo.addReaction
addReaction(info, ev, registry) ==
    LET reaction == Render(ev.reaction, registry)
        target == First({k \in 1..Len(info.reactions) : info.reactions[k].reaction = reaction})
    IN  IF target # 0
        THEN [info EXCEPT !.reactions[target].users = addUser(@, ev.user)]
        ELSE [info EXCEPT !.reactions = Append(@,
                [rawReaction |-> ev.reaction, reaction |-> reaction,
                 users |-> <<ev.user>>])]

\* removeReaction without the deletion of the emptied group.
removeReactionKeep(info, ev, registry) ==
    LET reaction == Render(ev.reaction, registry)
        target == First({k \in 1..Len(info.reactions) : info.reactions[k].reaction = reaction})
    IN  IF target # 0
        THEN [info EXCEPT !.reactions[target].users = removeUser(@, ev.user)]
        ELSE info

\* DisplaySlackMessageInfo.removeReaction
removeReaction(info, ev, registry) ==
    LET reaction == Render(ev.reaction, registry)
        target == First({k \in 1..Len(info.reactions) : info.reactions[k].reaction = reaction})
    IN  IF target # 0
        THEN LET users == removeUser(info.reactions[target].users, ev.user)
                 removed == [info EXCEPT !.reactions[target].users = users]
             IN  IF Len(users) = 0
                 THEN [removed EXCEPT !.reactions =
                          SelectSeq(@, LAMBDA r : r.reaction # reaction)]
                 ELSE removed
        ELSE info

\* ------------------------------------------------------------ the resolver
\* m.message.subType === 'file_share' && m.message.rawMessage.files
\*     && m.message.rawMessage.files[0].id === file
IsFileShare(m, file) ==
    /\ m.subType = "file_share"
    /\ m.file # "none"
    /\ m.file = file

\* m.message.subType === 'file_comment' && m.message.rawMessage.files
\*     && m.message.rawMessage.files[0].id === file
\*     && m.message.rawMessage.comment && m.message.rawMessage.comment.id === comment
IsFileComment(m, file, comment) ==
    /\ m.subType = "file_comment"
    /\ m.file # "none"
    /\ m.file = file
    /\ m.comment # "none"
    /\ m.comment = comment

\* findReactionTarget with the file rule tried first for a file_comment item.
findReactionTargetShareFirst(infs, item) ==
    CASE item.type = "message" ->
            First({k \in 1..Len(infs) : infs[k].ts = item.ts})
      [] item.type = "file" ->
            First({k \in 1..Len(infs) : IsFileShare(infs[k], item.file)})
      [] item.type = "file_comment" ->
            LET share == First({k \in 1..Len(infs) : IsFileShare(infs[k], item.file)})
            IN  IF share # 0
                THEN share
                ELSE First({k \in 1..Len(infs) :
                                IsFileComment(infs[k], item.file, item.file_comment)})
      [] OTHER -> 0

\* SlackService.findReactionTarget: the index in infs of the entry found, 0 for
\* undefined and null.
findReactionTarget(infs, item) ==
    CASE item.type = "message" ->
            First({k \in 1..Len(infs) : infs[k].ts = item.ts})
      [] item.type = "file" ->
            First({k \in 1..Len(infs) : IsFileShare(infs[k], item.file)})
      [] item.type = "file_comment" ->
            LET message == First({k \in 1..Len(infs) :
                                IsFileComment(infs[k], item.file, item.file_comment)})
            IN  IF message # 0
                THEN message
                ELSE First({k \in 1..Len(infs) : IsFileShare(infs[k], item.file)})
      [] OTHER -> 0

\* ------------------------------------------------------------ the handlers
\* What a handler reads and writes: the timeline, the connections (for their
\* emoji registries), the suspended addMessage calls, the number of entries
\* constructed, and what the dispatch did so far (target, notes, marks).
Store == [infos |-> infos, conn |-> conn, pending |-> pending, nextInfo |-> nextInfo,
          target |-> 0, notes |-> 0, marks |-> 0]

\* onReactionAdded that notifies only when it found a target.
onReactionAddedQuiet(st, ev, client) ==
    LET target == findReactionTarget(st.infos, ev.item)
    IN  IF target # 0
        THEN [st EXCEPT !.infos[target] = addReaction(@, ev, st.conn[@.client].emoji),
                        !.target = target,
                        !.notes = @ + 1]
        ELSE st

\* SlackService.onReactionAdded; the entry renders the key with its own parser,
\* which reads the registry of the connection that delivered the entry.
onReactionAdded(st, ev, client) ==
    LET target == findReactionTarget(st.infos, ev.item)
    IN  [st EXCEPT !.infos = IF target # 0
                             THEN [@ EXCEPT ![target] =
                                     addReaction(@, ev, st.conn[@.client].emoji)]
                             ELSE @,
                   !.target = target,
                   !.notes = @ + 1]

\* SlackService.onReactionRemoved
onReactionRemoved(st, ev, client) ==
    LET target == findReactionTarget(st.infos, ev.item)
    IN  [st EXCEPT !.infos = IF target # 0
                             THEN [@ EXCEPT ![target] =
                                     removeReaction(@, ev, st.conn[@.client].emoji)]
                             ELSE @,
                   !.target = target,
                   !.notes = @ + 1]

\* SlackService.onEmojiAdded
onEmojiAdded(st, ev, client) ==
    [st EXCEPT !.conn[client].emoji[ev.name] = ev.value, !.notes = @ + 1]

\* SlackService.onEmojiRemoved
onEmojiRemoved(st, ev, client) ==
    [st EXCEPT !.conn[client].emoji =
                    [e \in EmojiNames |-> IF e \in ev.names THEN "none" ELSE @[e]],
               !.notes = @ + 1]

\* new DisplaySlackMessageInfo(message, parser, client.attachmentTextParser)
NewInfo(id, message, client) ==
    [id |-> id, client |-> client, channel |-> message.channel, ts |-> message.ts,
     subType |-> message.subtype, file |-> message.file, comment |-> message.comment,
     text |-> message.text, attachments |-> message.attachments,
     edited |-> FALSE, image |-> "null", reactions |-> <<>>]

\* push in place of unshift.
push(infs, info) == Append(infs, info)

\* this.infos.unshift(info)
unshift(infs, info) == <<info>> \o infs

\* SlackService.addMessage up to its first suspension: an image message stops at
\* await client.getImage(...), any other message runs to the end.
addMessage(st, message, client) ==
    IF message.body
    THEN LET info == NewInfo(st.nextInfo + 1, message, client)
             inserted == [st EXCEPT !.infos = unshift(@, info), !.nextInfo = @ + 1]
         IN  IF message.file # "none" /\ message.image
             THEN [inserted EXCEPT !.pending = @ \cup {[info |-> info.id, client |-> client]}]
             ELSE [inserted EXCEPT !.marks = @ + 1, !.notes = @ + 1]
    ELSE st

\* removeDeletedMessage with the test of its filter inverted.
removeDeletedMessageInverted(st, message, client) ==
    [st EXCEPT !.infos = SelectSeq(@, LAMBDA m : message.deleted_ts = m.ts),
               !.notes = @ + 1]

\* SlackService.removeDeletedMessage
removeDeletedMessage(st, message, client) ==
    [st EXCEPT !.infos = SelectSeq(@, LAMBDA m : message.deleted_ts # m.ts),
               !.notes = @ + 1]

\* changeMessage that finds its entry by timestamp alone.
changeMessageAnyChannel(st, message, client) ==
    LET edited == First({k \in 1..Len(st.infos) : st.infos[k].ts = message.message.ts})
    IN  IF edited # 0
        THEN [st EXCEPT !.infos[edited].edited = TRUE,
                        !.infos[edited].text = message.message.text,
                        !.infos[edited].attachments = message.message.attachments,
                        !.notes = @ + 1]
        ELSE st

\* SlackService.changeMessage
changeMessage(st, message, client) ==
    LET edited == First({k \in 1..Len(st.infos) :
                            /\ st.infos[k].ts = message.message.ts
                            /\ st.infos[k].channel = message.channel})
    IN  IF edited # 0
        THEN [st EXCEPT !.infos[edited].edited = TRUE,
                        !.infos[edited].text = message.message.text,
                        !.infos[edited].attachments = message.message.attachments,
                        !.notes = @ + 1]
        ELSE st

\* SlackService.replyMessage
replyMessage(st, message, client) == st

\* SlackService.onReceiveMessage: the notification that ends it is reached once
\* the awaited handler has returned, so not in this step when addMessage is
\* suspended at getImage.
onReceiveMessage(st, message, client) ==
    LET handled ==
            CASE message.subtype = "message_deleted" -> removeDeletedMessage(st, message, client)
              [] message.subtype = "message_changed" -> changeMessage(st, message, client)
              [] message.subtype = "message_replied" -> replyMessage(st, message, client)
              [] OTHER -> addMessage(st, message, client)
    IN  IF handled.pending # st.pending
        THEN handled
        ELSE [handled EXCEPT !.notes = @ + 1]

\* One observer of the bundle subscribed in refresh() receives the event.
Handle(st, op, ev, client) ==
    CASE op = "message" -> onReceiveMessage(st, ev, client)
      [] op = "reactionAdded" -> onReactionAdded(st, ev, client)
      [] op = "reactionRemoved" -> onReactionRemoved(st, ev, client)
      [] op = "emojiAdded" -> onEmojiAdded(st, ev, client)
      [] op = "emojiRemoved" -> onEmojiRemoved(st, ev, client)

\* A Subject calls its observers one after the other: the event reaches every
\* bundle that this.subscription holds for the connection.
RECURSIVE Dispatch(_, _, _, _, _)
Dispatch(k, st, op, ev, client) ==
    IF k = 0 THEN st ELSE Dispatch(k - 1, Handle(st, op, ev, client), op, ev, client)

\* The number of users in the reaction groups of infs.
RECURSIVE SumLen(_)
SumLen(s) == IF s = <<>> THEN 0 ELSE Len(Head(s).users) + SumLen(Tail(s))

RECURSIVE Reacted(_)
Reacted(infs) ==
    IF infs = <<>> THEN 0 ELSE SumLen(Head(infs).reactions) + Reacted(Tail(infs))

\* Connection client emits ev on the stream op.
Emit(op, ev, client) ==
    LET k == Count(subscription, client)
        st == Dispatch(k, Store, op, ev, client)
    IN  /\ st.nextInfo <= MaxInfos
        /\ Reacted(st.infos) <= MaxReactions
        /\ infos' = st.infos
        /\ conn' = st.conn
        /\ pending' = st.pending
        /\ nextInfo' = st.nextInfo
        /\ last' = [NoLast EXCEPT !.op = op, !.client = client, !.n = k, !.ev = ev,
                                  !.before = infos,
                                  !.regs = IF k = 0 THEN conn ELSE <<>>,
                                  !.target = st.target, !.notes = st.notes,
                                  !.marks = st.marks]
        /\ UNCHANGED <<tokens, clients, subscription>>

\* ---------------------------------------------------------------- events
\* rawMessage of a message that addMessage inserts, by what the handlers read.
MessageShapes ==
    {[subtype |-> "none", file |-> "none", comment |-> "none", image |-> FALSE],
     [subtype |-> "file_share", file |-> "F1", comment |-> "none", image |-> TRUE],
     [subtype |-> "file_comment", file |-> "F1", comment |-> "K1", image |-> FALSE]}

Posted(chs, tss, shapes, txs) ==
    {[subtype |-> s.subtype, body |-> b, channel |-> ch, ts |-> t, file |-> s.file,
      comment |-> s.comment, image |-> s.image, text |-> x, attachments |-> x] :
        s \in shapes, b \in BOOLEAN, ch \in chs, t \in tss, x \in txs}

Deleted(tss) == {[subtype |-> "message_deleted", deleted_ts |-> t] : t \in tss}

Changed(chs, tss, txs) ==
    {[subtype |-> "message_changed", channel |-> ch,
      message |-> [ts |-> t, text |-> x, attachments |-> x]] :
        ch \in chs, t \in tss, x \in txs}

Replied == {[subtype |-> "message_replied"]}

ReactionItems ==
    {[type |-> "message", ts |-> t] : t \in Stamps}
    \cup {[type |-> "file", file |-> f] : f \in Files}
    \cup {[type |-> "file_comment", file |-> f, file_comment |-> k] :
                f \in Files, k \in Comments}
    \cup {[type |-> "channel"]}

Reactions(items, names, users) ==
    {[reaction |-> e, user |-> u, item |-> i] : e \in names, u \in users, i \in items}

EmojiAdditions(names) == {[name |-> e, value |-> v] : e \in names, v \in EmojiValues}

EmojiRemovals(names) == {[names |-> es] : es \in SUBSET names \ {{}}}

ReceiveMessage(messages) ==
    \E client \in 1..Len(conn), m \in messages : Emit("message", m, client)

ReactionAdded(reactions) ==
    \E client \in 1..Len(conn), r \in reactions : Emit("reactionAdded", r, client)

ReactionRemoved(reactions) ==
    \E client \in 1..Len(conn), r \in reactions : Emit("reactionRemoved", r, client)

EmojiAdded(additions) ==
    \E client \in 1..Len(conn), e \in additions : Emit("emojiAdded", e, client)

EmojiRemoved(removals) ==
    \E client \in 1..Len(conn), e \in removals : Emit("emojiRemoved", e, client)

\* addMessage after await client.getImage(...) without the catch: a rejection
\* leaves addMessage, and the onReceiveMessage that awaits it, rejected.
resumeAddMessageUncaught(outcome) ==
    IF outcome = "rejected"
    THEN [assigned |-> FALSE, image |-> "null", marks |-> 0, notes |-> 0]
    ELSE [assigned |-> TRUE, image |-> outcome, marks |-> 1, notes |-> 2]

\* addMessage after await client.getImage(...): the catch turns a rejection
\* into undefined; info.image is assigned, client.markRead is called and
\* _onChange.next, and the onReceiveMessage that awaited addMessage calls
\* _onChange.next once more.
resumeAddMessage(outcome) ==
    [assigned |-> TRUE,
     image |-> IF outcome = "rejected" THEN "undefined" ELSE outcome,
     marks |-> 1, notes |-> 2]

\* client.getImage(...) of a suspended addMessage settles, with the image or
\* rejected.  The assignment is to the entry object, in the timeline or not.
ImageSettled ==
    \E p \in pending, outcome \in {"data", "rejected"} :
        LET r == resumeAddMessage(outcome)
        IN  /\ infos' = [i \in 1..Len(infos) |->
                            IF infos[i].id = p.info /\ r.assigned
                            THEN [infos[i] EXCEPT !.image = r.image]
                            ELSE infos[i]]
            /\ pending' = pending \ {p}
            /\ last' = [NoLast EXCEPT !.op = "image", !.client = p.client,
                            !.ev = [info |-> p.info, outcome |-> outcome],
                            !.before = infos, !.notes = r.notes, !.marks = r.marks]
            /\ UNCHANGED <<tokens, clients, subscription, conn, nextInfo>>

\* ------------------------------------------------------------ specifications
\* The constructor: the field initialisers, then refresh() on the configured
\* token list, one of lists.
InitWith(lists) ==
    \E d \in lists :
        LET r == refresh(<<>>, <<>>, d)
        IN  /\ tokens = d
            /\ clients = r.clients
            /\ subscription = r.subscription
            /\ conn = r.conn
            /\ infos = <<>>
            /\ pending = {}
            /\ nextInfo = 0
            /\ last = NoLast

Init == InitWith(DesiredLists)

AllMessages ==
    Posted(Channels, Stamps, MessageShapes, Texts) \cup Deleted(Stamps)
        \cup Changed(Channels, Stamps, Texts) \cup Replied

AllReactions == Reactions(ReactionItems, EmojiNames, Users)

\* Every operation on every input.
Next ==
    \/ Refresh
    \/ ReceiveMessage(AllMessages)
    \/ ReactionAdded(AllReactions)
    \/ ReactionRemoved(AllReactions)
    \/ EmojiAdded(EmojiAdditions(EmojiNames))
    \/ EmojiRemoved(EmojiRemovals(EmojiNames))
    \/ ImageSettled

Spec == Init /\ [][Next]_vars

\* Reconfiguration, and events that reach a handler which changes nothing.
NextReconcile ==
    \/ Refresh
    \/ ReceiveMessage(Replied)

SpecReconcile == Init /\ [][NextReconcile]_vars

\* One connection and the message events of one channel.
TimelineMessages ==
    Posted({"D1"}, Stamps, MessageShapes, {"x"}) \cup Deleted(Stamps)
        \cup Changed(Channels, Stamps, {"y"}) \cup Replied

NextTimeline ==
    \/ ReceiveMessage(TimelineMessages)
    \/ ImageSettled

SpecTimeline == InitWith({<<"A">>}) /\ [][NextTimeline]_vars

\* One connection, plain messages with one timestamp, the reactions to messages
\* and every emoji event.
GroupReactions ==
    Reactions({[type |-> "message", ts |-> "100.5"]}, EmojiNames, Users)

NextReactions ==
    \/ ReceiveMessage(Posted({"D1"}, {"100.5"},
                         {s \in MessageShapes : s.subtype = "none"}, {"x"}))
    \/ ReactionAdded(GroupReactions)
    \/ ReactionRemoved(GroupReactions)
    \/ EmojiAdded(EmojiAdditions(EmojiNames))
    \/ EmojiRemoved(EmojiRemovals(EmojiNames))

SpecReactions == InitWith({<<"A">>}) /\ [][NextReactions]_vars

\* One connection, messages of every shape with one timestamp, and the
\* reactions of one user to every kind of item.
NextResolver ==
    \/ ReceiveMessage(Posted({"D1"}, {"100.5"}, MessageShapes, {"x"}))
    \/ ReactionAdded(Reactions(ReactionItems, {"e1"}, {"u1"}))
    \/ ReactionRemoved(Reactions(ReactionItems, {"e1"}, {"u1"}))

SpecResolver == InitWith({<<"A">>}) /\ [][NextResolver]_vars

\* One connection, plain messages of one channel, and one event of every
\* other kind.
OneReaction == Reactions({[type |-> "message", ts |-> "100.5"]}, {"e1"}, {"u1"})

NextOrder ==
    \/ ReceiveMessage(Posted({"D1"}, Stamps,
                         {s \in MessageShapes : s.subtype = "none"}, {"x"})
                        \cup Deleted(Stamps) \cup Changed({"D1"}, Stamps, {"y"}))
    \/ ReactionAdded(OneReaction)
    \/ ReactionRemoved(OneReaction)
    \/ EmojiAdded(EmojiAdditions({"e1"}))
    \/ EmojiRemoved(EmojiRemovals({"e1"}))

SpecOrder == InitWith({<<"A">>}) /\ [][NextOrder]_vars

\* ------------------------------------------------------------------ claims
\* The connections that are started and not stopped.
Running == {id \in 1..Len(conn) : conn[id].started > 0 /\ conn[id].stopped = 0}

\* C1: a refresh keeps every connection of the previous active list whose token
\* is still desired, as the same instance, in the new active list, and calls
\* neither start() nor stop() on it.
C1_ReusedKept ==
    [][last'.op = "refresh" =>
        \A id \in Range(clients) :
            conn[id].token \in Range(tokens') =>
                /\ id \in Range(clients')
                /\ conn'[id].started = conn[id].started
                /\ conn'[id].stopped = conn[id].stopped]_vars

\* C2: in a refresh, every desired token that no connection of the previous
\* active list holds has exactly one connection constructed for it, and start()
\* is called once on that connection.
C2_StartedOnce ==
    [][last'.op = "refresh" =>
        \A t \in Range(tokens') :
            (\A id \in Range(clients) : conn[id].token # t) =>
                /\ Cardinality({id \in (Len(conn) + 1)..Len(conn') :
                                    conn'[id].token = t}) = 1
                /\ \A id \in (Len(conn) + 1)..Len(conn') :
                        conn'[id].token = t => conn'[id].started = 1]_vars

\* C3: every connection ever started whose token is not desired has had stop()
\* called exactly once and is not in the active list, and no running
\* connection is outside the active list.
C3_StoppedAndDropped ==
    /\ \A id \in 1..Len(conn) :
            conn[id].token \notin Range(tokens) =>
                conn[id].stopped = 1 /\ id \notin Range(clients)
    /\ Running \subseteq Range(clients)

\* C4: every connection of the active list has exactly one live subscription
\* bundle, and an event that an active connection emits reaches its handler
\* exactly once.
C4_OneBundle ==
    /\ \A id \in Range(clients) : Count(subscription, id) = 1
    /\ (last.op = "message" /\ last.client \in Range(clients)) => last.n = 1

\* C5: the timeline holds at most one entry per (connection, channel,
\* timestamp).
C5_OneEntryPerKey ==
    \A i, j \in 1..Len(infos) :
        (/\ infos[i].client = infos[j].client
         /\ infos[i].channel = infos[j].channel
         /\ infos[i].ts = infos[j].ts) => i = j

NoRepeat(s) == \A i, j \in 1..Len(s) : s[i] = s[j] => i = j

\* The users of the group of reactions that has the key, <<>> without one.
UsersOf(reactions, key) ==
    LET g == First({k \in 1..Len(reactions) : reactions[k].reaction = key})
    IN  IF g = 0 THEN <<>> ELSE reactions[g].users

\* The key that the last reaction event rendered on its target.
LastKey == Render(last.ev.reaction, conn[infos[last.target].client].emoji)

LastReacted(op) == last.op = op /\ last.n > 0 /\ last.target # 0

\* C6: no reaction group holds a user twice; a reaction-added event leaves its
\* user exactly once in the group of its key, and does not change the count of
\* a group that held the user already.
C6_UserOnce ==
    /\ \A i \in 1..Len(infos) : \A g \in 1..Len(infos[i].reactions) :
            NoRepeat(infos[i].reactions[g].users)
    /\ LastReacted("reactionAdded") =>
            LET old == UsersOf(last.before[last.target].reactions, LastKey)
                new == UsersOf(infos[last.target].reactions, LastKey)
            IN  /\ Count(new, last.ev.user) = 1
                /\ last.ev.user \in Range(old) => Len(new) = Len(old)

\* C6 witness: a reaction-added event for a user its group held already.
C6_Readded ==
    /\ LastReacted("reactionAdded")
    /\ last.ev.user \in Range(UsersOf(last.before[last.target].reactions, LastKey))

\* C7: no entry holds a reaction group without users; a reaction-removed event
\* for the only user of the group of its key leaves the entry without a group
\* of that key.
C7_NoEmptyGroup ==
    /\ \A i \in 1..Len(infos) : \A g \in 1..Len(infos[i].reactions) :
            Len(infos[i].reactions[g].users) > 0
    /\ (/\ LastReacted("reactionRemoved")
        /\ UsersOf(last.before[last.target].reactions, LastKey) = <<last.ev.user>>)
        => \A g \in 1..Len(infos[last.target].reactions) :
                infos[last.target].reactions[g].reaction # LastKey

\* C7 witness: a reaction-removed event took the only user out of a group.
C7_LastUserRemoved ==
    /\ LastReacted("reactionRemoved")
    /\ UsersOf(last.before[last.target].reactions, LastKey) = <<last.ev.user>>

Ids(infs) == [i \in 1..Len(infs) |-> infs[i].id]

\* C8: the timeline holds its entries in the reverse of the order of their
\* insertion, and an edit, reaction or emoji event leaves every entry at its
\* position.
C8_NewestFirst ==
    /\ \A i, j \in 1..Len(infos) : i < j => infos[i].id > infos[j].id
    /\ (\/ last.op \in {"reactionAdded", "reactionRemoved", "emojiAdded", "emojiRemoved"}
        \/ (last.op = "message" /\ last.ev.subtype = "message_changed"))
        => Ids(infos) = Ids(last.before)
    /\ (last.op = "message" /\ last.n = 1 /\ Len(infos) > Len(last.before))
        => Ids(infos) = <<nextInfo>> \o Ids(last.before)

\* C8 witness: the older of two entries was edited and is still the second.
C8_OlderEdited ==
    /\ last.op = "message" /\ last.ev.subtype = "message_changed" /\ last.n > 0
    /\ Len(infos) = 2
    /\ infos[2].edited /\ ~last.before[2].edited

IsComment(m, item) ==
    m.subType = "file_comment" /\ m.file = item.file /\ m.comment = item.file_comment

IsShare(m, item) == m.subType = "file_share" /\ m.file = item.file

\* C9: for a file_comment item the resolver returns a file_comment entry with
\* the item's file and comment whenever the timeline holds one, else a
\* file_share entry with the item's file when it holds one, else none; for an
\* item of unknown type it returns none.
C9_CommentThenShare ==
    (last.op \in {"reactionAdded", "reactionRemoved"} /\ last.n > 0) =>
        LET item == last.ev.item
            found == last.target
        IN  /\ item.type = "file_comment" =>
                IF \E i \in 1..Len(infos) : IsComment(infos[i], item)
                THEN found # 0 /\ IsComment(infos[found], item)
                ELSE IF \E i \in 1..Len(infos) : IsShare(infos[i], item)
                     THEN found # 0 /\ IsShare(infos[found], item)
                     ELSE found = 0
            /\ item.type \notin {"message", "file", "file_comment"} => found = 0

\* C9 witness: the file_comment entry was found behind a file_share entry of
\* the same file.
C9_CommentBehindShare ==
    /\ last.op = "reactionAdded" /\ last.n > 0
    /\ last.ev.item.type = "file_comment"
    /\ last.target = 2
    /\ IsShare(infos[1], last.ev.item)
    /\ IsComment(infos[2], last.ev.item)

LastDeleted == last.op = "message" /\ last.ev.subtype = "message_deleted" /\ last.n > 0

\* C10: a message_deleted event removes the entries whose timestamp is its
\* deleted_ts and no other; the others keep their order, edited flag, image
\* and reactions.
C10_DeletedOnly ==
    LastDeleted =>
        LET old == last.before
            kept == {i \in 1..Len(old) : old[i].ts # last.ev.deleted_ts}
        IN  /\ Len(infos) = Cardinality(kept)
            /\ \A i \in kept : \E j \in 1..Len(infos) : infos[j] = old[i]
            /\ \A i, j \in 1..Len(infos) : i < j =>
                    \E a, b \in kept : a < b /\ old[a] = infos[i] /\ old[b] = infos[j]

\* C10 witness: of two entries one was deleted, and the one that stays had
\* been edited or had its image.
C10_OneOfTwoDeleted ==
    /\ LastDeleted
    /\ Len(last.before) = 2 /\ Len(infos) = 1
    /\ infos[1].edited \/ infos[1].image = "data"

\* The last step handled a message event of the subtype in one handler.
LastMessage(subtype) == last.op = "message" /\ last.n = 1 /\ last.ev.subtype = subtype

\* A message event that makes addMessage insert an entry.
IsPost(ev) ==
    /\ ev.subtype \notin {"message_deleted", "message_changed", "message_replied"}
    /\ ev.body

\* A message event that makes addMessage insert an entry and fetch its image.
IsImagePost(ev) == IsPost(ev) /\ ev.file # "none" /\ ev.image

\* C11: an event handled by the dispatcher, other than the insertion of an
\* image message (whose notification may wait for the thumbnail), makes it emit
\* exactly one change notification.
C11_OneNotification ==
    /\ (last.op = "message" /\ last.n = 1 /\ ~IsImagePost(last.ev)) => last.notes = 1
    /\ (last.op \in {"reactionAdded", "reactionRemoved", "emojiAdded", "emojiRemoved"}
            /\ last.n = 1) => last.notes = 1

\* The entries of infs that a message_changed event ev matches.
Matches(infs, ev) ==
    {k \in 1..Len(infs) : infs[k].ts = ev.message.ts /\ infs[k].channel = ev.channel}

\* The timeline after the first entry that ev matches has been edited in place.
EditedInPlace(ev) ==
    /\ Len(infos) = Len(last.before)
    /\ \A k \in 1..Len(infos) :
            IF k \in Matches(last.before, ev) /\ \A j \in Matches(last.before, ev) : k <= j
            THEN infos[k] = [last.before[k] EXCEPT !.edited = TRUE,
                                                  !.text = ev.message.text,
                                                  !.attachments = ev.message.attachments]
            ELSE infos[k] = last.before[k]

\* C12 as claimed: a message_changed event that matches no entry changes
\* nothing and emits no notification; one that matches marks the entry edited,
\* replaces its text and attachments and emits a notification.
C12_UnmatchedSilent ==
    LastMessage("message_changed") =>
        IF Matches(last.before, last.ev) = {}
        THEN infos = last.before /\ last.notes = 0
        ELSE EditedInPlace(last.ev) /\ last.notes >= 1

\* C12 as amended: a message_changed event that matches no entry changes no
\* entry and emits the one notification of the dispatcher; one that matches
\* marks the entry edited, replaces its text and attachments and emits a
\* notification.
C12_UnmatchedUnchanged ==
    LastMessage("message_changed") =>
        IF Matches(last.before, last.ev) = {}
        THEN infos = last.before /\ last.notes = 1
        ELSE EditedInPlace(last.ev) /\ last.notes >= 1

\* C12 witness: an edit of another channel's message passed a timeline that
\* holds an entry with its timestamp.
C12_OtherChannel ==
    /\ LastMessage("message_changed")
    /\ Matches(last.before, last.ev) = {}
    /\ \E k \in 1..Len(infos) : infos[k].ts = last.ev.message.ts

\* C13: a reaction event whose item resolves to no entry changes no entry,
\* group or position, and a change notification is emitted for it.
C13_UnresolvedNotified ==
    (last.op \in {"reactionAdded", "reactionRemoved"} /\ last.n = 1 /\ last.target = 0)
        => infos = last.before /\ last.notes = 1

\* C13 witness: a reaction to a message with an unknown timestamp passed a
\* timeline that holds entries.
C13_UnknownStamp ==
    /\ last.op = "reactionAdded" /\ last.n = 1 /\ last.target = 0
    /\ last.ev.item.type = "message"
    /\ Len(infos) > 0

\* C14: a message event that inserts an entry emits a change notification in
\* the step of the insertion, whether the message carries an image or not.
C14_NotifiedAtInsert ==
    (last.op = "message" /\ last.n = 1 /\ IsPost(last.ev)) => last.notes >= 1

\* The last step settled the thumbnail fetch of an entry that the timeline
\* still held.
LastSettledHeld == last.op = "image" /\ last.ev.info \in Range(Ids(last.before))

\* C15: a thumbnail fetch that settles after its entry was removed, or after
\* its connection was stopped, changes nothing, calls no markRead and emits no
\* notification.
C15_StaleFetchIgnored ==
    (/\ last.op = "image"
     /\ \/ last.ev.info \notin Range(Ids(last.before))
        \/ conn[last.client].stopped > 0)
        => infos = last.before /\ last.marks = 0 /\ last.notes = 0

\* C16: a thumbnail fetch that fails for an entry of the timeline leaves the
\* entry at its position without an image and otherwise unchanged; the
\* message is marked read once and a notification is emitted.
C16_FailureSwallowed ==
    (LastSettledHeld /\ last.ev.outcome = "rejected") =>
        /\ Len(infos) = Len(last.before)
        /\ \A k \in 1..Len(infos) :
                IF infos[k].id = last.ev.info
                THEN /\ infos[k].image \in {"null", "undefined"}
                     /\ [infos[k] EXCEPT !.image = "null"]
                            = [last.before[k] EXCEPT !.image = "null"]
                ELSE infos[k] = last.before[k]
        /\ last.marks = 1
        /\ last.notes >= 1

\* C16 witness: the fetch failed for the older of two entries.
C16_FailedForOlder ==
    /\ LastSettledHeld /\ last.ev.outcome = "rejected"
    /\ Len(infos) = 2
    /\ infos[2].id = last.ev.info

\* One connection at the start, its token taken out and put back, and the
\* events that insert an entry or register an emoji.
NextStopped ==
    \/ RefreshTo({<<>>, <<"A">>})
    \/ ReceiveMessage(Posted({"D1"}, {"100.5"},
                         {s \in MessageShapes : s.subtype = "none"}, {"x"}))
    \/ EmojiAdded(EmojiAdditions({"e1"}))

SpecStopped == InitWith({<<"A">>}) /\ [][NextStopped]_vars

\* C17: a connection that a refresh has stopped holds no subscription, and an
\* event that it emits reaches no handler: the timeline is unchanged and no
\* notification is emitted.
C17_StoppedUnsubscribed ==
    /\ \A id \in 1..Len(conn) : conn[id].stopped > 0 => Count(subscription, id) = 0
    /\ (/\ last.op \in {"message", "emojiAdded"}
        /\ conn[last.client].stopped > 0)
        => /\ last.n = 0
           /\ infos = last.before
           /\ conn = last.regs
           /\ last.notes = 0

\* C17 witness: a stopped connection emitted an emoji while the timeline
\* holds an entry.
C17_StoppedEmitted ==
    /\ last.op = "emojiAdded"
    /\ conn[last.client].stopped > 0
    /\ Len(infos) > 0

\* Token lists without a repeated token.
DistinctLists == {d \in DesiredLists : \A i, j \in 1..Len(d) : d[i] = d[j] => i = j}

\* Reconfiguration over lists without repeats, with and without a failing
\* construction, and the event that no handler acts on.
NextFailure ==
    \/ RefreshTo(DistinctLists)
    \/ RefreshFails(DistinctLists)
    \/ ReceiveMessage(Replied)

SpecFailure == InitWith(DistinctLists) /\ [][NextFailure]_vars

\* C18: after a refresh in which the construction of a connection failed, the
\* connections that hold a subscription, the connections that are started and
\* not stopped, and the active list are the same set.
C18_FailureLeavesNoPartial ==
    last.op = "refreshFailed"
        => /\ Range(subscription) = Running
           /\ Running = Range(clients)

\* Two connections, and the events about one timestamp of one channel.
NextCross ==
    \/ ReceiveMessage(Posted({"D1"}, {"100.5"},
                         {s \in MessageShapes : s.subtype = "none"}, {"x"})
                        \cup Deleted({"100.5"}) \cup Changed({"D1"}, {"100.5"}, {"y"}))
    \/ ReactionAdded(OneReaction)
    \/ ReactionRemoved(OneReaction)

SpecCross == InitWith({<<"A", "B">>}) /\ [][NextCross]_vars

\* A delete, edit or reaction event was handled once.
LastTargeted ==
    /\ last.n = 1
    /\ \/ last.op \in {"reactionAdded", "reactionRemoved"}
       \/ /\ last.op = "message"
          /\ last.ev.subtype \in {"message_deleted", "message_changed"}

\* C19: a delete, edit or reaction event delivered by a connection leaves every
\* entry owned by another connection in the timeline, unchanged.
C19_OtherOwnersUntouched ==
    LastTargeted
        => \A i \in 1..Len(last.before) :
                last.before[i].client # last.client
                    => \E j \in 1..Len(infos) : infos[j] = last.before[i]

\* One connection, one message, the reactions of one user with one emoji, and
\* the registration and removal of that emoji.
NextKeys ==
    \/ ReceiveMessage(Posted({"D1"}, {"100.5"},
                         {s \in MessageShapes : s.subtype = "none"}, {"x"}))
    \/ ReactionAdded(OneReaction)
    \/ ReactionRemoved(OneReaction)
    \/ EmojiAdded(EmojiAdditions({"e1"}))
    \/ EmojiRemoved(EmojiRemovals({"e1"}))

SpecKeys == InitWith({<<"A">>}) /\ [][NextKeys]_vars

\* C20: after a reaction-removed event that resolved to an entry, the user of
\* the event is in no group of that entry, whatever the registry held when the
\* user's reaction was added.
C20_RemovedFromEveryGroup ==
    (last.op = "reactionRemoved" /\ last.n = 1 /\ last.target # 0)
        => \A g \in 1..Len(infos[last.target].reactions) :
                last.ev.user \notin Range(infos[last.target].reactions[g].users)

====
